---------------------------- MODULE Spec2Model ----------------------------
(***************************************************************************)
(* A model of changanya: Bloomfilter (bloom.py), SimhashIndex and Permuter *)
(* (simhash.py) and Geohash (geohash.py).  Each object is one record       *)
(* variable holding the fields the source assigns; every method is one     *)
(* action.  A method that raises leaves the fields it had not yet assigned *)
(* untouched and records the exception in the object's return variable.    *)
(***************************************************************************)
EXTENDS Integers, Sequences, FiniteSets, TLC

VARIABLES
    bf,        \* the Bloomfilter instance: pc, hashbits, num_hashes, hash
    b_added,   \* ghost: the items whose add has returned (or that were seeded)
    b_ret,     \* what the last Bloomfilter call returned or raised
    ix,        \* the SimhashIndex instance: pc, simhashes, hashbits, bits, ...
    ix_added,  \* ghost: the fingerprints handed to add after construction
    ix_calls,  \* ghost: how many find_dupes calls have run
    ix_ret,    \* what the last SimhashIndex call yielded or raised
    geo,       \* the Geohash instance
    g_ret,     \* what the last Geohash call returned or raised
    there,     \* a second Geohash instance, the other of distance(other)
    sims,      \* the Simhash instances constructed, in order
    h_ret      \* what the last Simhash or Hashtype call returned or raised

vars ==
    <<bf, b_added, b_ret, ix, ix_added, ix_calls, ix_ret, geo, g_ret, there,
      sims, h_ret>>

None == "None"

PyBool(b) == IF b THEN "True" ELSE "False"

(***************************************************************************)
(* Python's integer bit operators on non-negative integers.                *)
(***************************************************************************)
RECURSIVE BitAnd(_, _)
BitAnd(a, b) ==
    IF a = 0 \/ b = 0 THEN 0
    ELSE (a % 2) * (b % 2) + 2 * BitAnd(a \div 2, b \div 2)

RECURSIVE BitOr(_, _)
BitOr(a, b) ==
    IF a = 0 THEN b
    ELSE IF b = 0 THEN a
    ELSE (IF a % 2 = 1 \/ b % 2 = 1 THEN 1 ELSE 0) + 2 * BitOr(a \div 2, b \div 2)

RECURSIVE BitXor(_, _)
BitXor(a, b) ==
    IF a = 0 THEN b
    ELSE IF b = 0 THEN a
    ELSE ((a + b) % 2) + 2 * BitXor(a \div 2, b \div 2)

Shl(x, n) == x * (2 ^ n)

Shr(x, n) == x \div (2 ^ n)

RECURSIVE PopCount(_)
PopCount(x) == IF x = 0 THEN 0 ELSE (x % 2) + PopCount(x \div 2)

RECURSIVE SumSeq(_)
SumSeq(s) == IF s = <<>> THEN 0 ELSE Head(s) + SumSeq(Tail(s))

Min(a, b) == IF a <= b THEN a ELSE b

Max(a, b) == IF a >= b THEN a ELSE b

(***************************************************************************)
(* Bloomfilter (bloom.py)                                                  *)
(***************************************************************************)

\* How many of the tabulated items the calls draw from.
BloomItems == 4

\* The longest seed list handed to the constructor.
MaxSeed == 2

ItemTable == <<"test", "test string", "holy diver", "these", "are", "some">>

Items == {ItemTable[i] : i \in 1..BloomItems}

\* hashlib.sha1(item.encode('utf-8')).hexdigest(), cut as _hashes cuts it:
\* int(digits[i*5:i*5+5], 16) for i = 0..7 (40 hex digits, eight 20-bit slices).
Sha1Slices(item) ==
    CASE item = "test" ->
           <<693416, 1041868, 727482, 400460, 34621, 233961, 555394, 1031123>>
      [] item = "test string" ->
           <<418089, 379339, 1023339, 194114, 540997, 19085, 978224, 132673>>
      [] item = "holy diver" ->
           <<920878, 384449, 536249, 640582, 824102, 662326, 782793, 404573>>
      [] item = "these" ->
           <<531320, 119709, 405149, 57970, 923676, 948226, 717808, 1021175>>
      [] item = "are" ->
           <<391653, 524987, 703601, 1020533, 1035505, 143194, 338821, 630546>>
      [] item = "some" ->
           <<964725, 529029, 578171, 142514, 751097, 601599, 711707, 23654>>

\* The (capacity, false_positive_rate) pairs the constructor is called with;
\* the rate is written in thousandths (500 is 0.5).
SizeInputs == {<<1, 500>>, <<3, 500>>, <<2, 300>>, <<1, 4>>}

\* _optimal_size on those pairs: m = ceil(capacity * ln(error) / ln(1 / 2^ln 2)),
\* k = ceil(ln 2 * m / capacity), as the source evaluates them.
_optimal_size(capacity, error) ==
    CASE capacity = 1 /\ error = 500 -> <<2, 2>>
      [] capacity = 3 /\ error = 500 -> <<5, 2>>
      [] capacity = 2 /\ error = 300 -> <<6, 3>>
      [] capacity = 1 /\ error = 4 -> <<12, 9>>
      [] capacity = -1 /\ error = 500 -> <<-1, 1>>
      [] capacity = 1 /\ error = 1000 -> <<0, 0>>
      [] capacity = 1 /\ error = 1500 -> <<0, 0>>
      [] capacity = 3 /\ error = 1500 -> <<-2, 0>>
      [] capacity = -1 /\ error = 2000 -> <<2, -1>>

\* Pairs outside the documented domain: capacity <= 0, or a rate outside (0, 1).
DegenerateSizeInputs ==
    {<<-1, 500>>, <<0, 500>>, <<1, 0>>, <<1, -500>>, <<1, 1000>>, <<1, 1500>>,
     <<3, 1500>>, <<-1, 2000>>}

\* What _optimal_size raises ("" if nothing): math.log(error) raises
\* ValueError for error <= 0, and the division by capacity raises
\* ZeroDivisionError for capacity = 0.
OptimalSizeRaises(capacity, error) ==
    IF error <= 0 THEN "ValueError"
    ELSE IF capacity = 0 THEN "ZeroDivisionError"
    ELSE ""

\* Python's a % b for b # 0: the result takes the sign of b.
PyMod(a, b) == IF b > 0 THEN a % b ELSE -((-a) % (-b))

\* _hashes raises TypeError at m.update(str(i)): hashlib takes bytes only, and
\* the loop body runs as soon as num_hashes // 8 > 0.
HashesRaises(self) == self.num_hashes \div 8 > 0

\* _hashes, when it returns: num_hashes positions in [0, hashbits).
_hashes(self, item) ==
    [i \in 1..self.num_hashes |-> PyMod(Sha1Slices(item)[i], self.hashbits)]

RECURSIVE FoldOrXor(_, _)
FoldOrXor(_hash, positions) ==
    IF positions = <<>> THEN _hash
    ELSE FoldOrXor(BitXor(_hash, 2 ^ Head(positions)), Tail(positions))

\* A slip: x ^ (2 ** y) for x | (2 ** y).
_add_xor(self, _hash, item) == FoldOrXor(_hash, _hashes(self, item))

RECURSIVE FoldOr(_, _)
FoldOr(_hash, positions) ==
    IF positions = <<>> THEN _hash
    ELSE FoldOr(BitOr(_hash, 2 ^ Head(positions)), Tail(positions))

\* reduce(lambda x, y: x | (2 ** y), self._hashes(item), _hash)
_add(self, _hash, item) == FoldOr(_hash, _hashes(self, item))

RECURSIVE FoldAdd(_, _, _)
FoldAdd(self, _hash, data) ==
    IF data = <<>> THEN _hash
    ELSE FoldAdd(self, _add(self, _hash, Head(data)), Tail(data))

\* The constructor's data: one string (possibly '') or a list of strings.
SeedLists == UNION {[1..n -> Items] : n \in 0..MaxSeed}

BloomData ==
    {[kind |-> "str", str |-> s, list |-> <<>>] : s \in Items \cup {""}}
    \cup {[kind |-> "list", str |-> "", list |-> l] : l \in SeedLists}

\* What create_hash folds through _add: nothing for '' and [], the string
\* itself for a str, each element for a list.
DataItems(data) ==
    IF data.kind = "str"
    THEN (IF data.str = "" THEN <<>> ELSE <<data.str>>)
    ELSE data.list

create_hash(self, data) == FoldAdd(self, 0, DataItems(data))

RECURSIVE ContainsLoop(_, _)
ContainsLoop(_hash, positions) ==
    IF positions = <<>> THEN TRUE
    ELSE BitAnd(_hash, 2 ^ Head(positions)) # 0
         /\ ContainsLoop(_hash, Tail(positions))

\* __contains__: every position of the item is set in self.hash.
Contains(self, name) == ContainsLoop(self.hash, _hashes(self, name))

\* The last call: its name, its argument, and the value returned or the
\* exception raised.
BRet(op, item, value) == [op |-> op, item |-> item, value |-> value]

BloomNew == [pc |-> "new", hashbits |-> 0, num_hashes |-> 0, hash |-> 0]

\* Bloomfilter(data, capacity, false_positive_rate)
BloomInitCall(data, capacity, error) ==
    /\ bf.pc = "new"
    /\ IF OptimalSizeRaises(capacity, error) # ""
       THEN /\ bf' = [bf EXCEPT !.pc = "raised"]
            /\ b_ret' = BRet("new", <<capacity, error>>,
                             OptimalSizeRaises(capacity, error))
            /\ b_added' = b_added
       ELSE LET size == _optimal_size(capacity, error)
                self == [pc |-> "ok", hashbits |-> size[1],
                         num_hashes |-> size[2], hash |-> 0]
            IN IF DataItems(data) # <<>> /\ HashesRaises(self)
               THEN /\ bf' = [bf EXCEPT !.pc = "raised"]
                    /\ b_ret' = BRet("new", <<capacity, error>>, "TypeError")
                    /\ b_added' = b_added
               ELSE /\ bf' = [self EXCEPT !.hash = create_hash(self, data)]
                    /\ b_ret' = BRet("new", <<capacity, error>>, None)
                    /\ b_added' =
                           {DataItems(data)[i] : i \in DOMAIN DataItems(data)}
    /\ UNCHANGED <<ix, ix_added, ix_calls, ix_ret, geo, g_ret, there, sims, h_ret>>

\* add(item)
BloomAdd(item) ==
    /\ bf.pc = "ok"
    /\ IF HashesRaises(bf)
       THEN /\ b_ret' = BRet("add", item, "TypeError")
            /\ UNCHANGED <<bf, b_added>>
       ELSE /\ bf' = [bf EXCEPT !.hash = _add(bf, bf.hash, item)]
            /\ b_added' = b_added \cup {item}
            /\ b_ret' = BRet("add", item, None)
    /\ UNCHANGED <<ix, ix_added, ix_calls, ix_ret, geo, g_ret, there, sims, h_ret>>

\* item in filter
BloomContains(item) ==
    /\ bf.pc = "ok"
    /\ b_ret' = IF HashesRaises(bf) THEN BRet("in", item, "TypeError")
                ELSE BRet("in", item, PyBool(Contains(bf, item)))
    /\ UNCHANGED <<bf, b_added>>
    /\ UNCHANGED <<ix, ix_added, ix_calls, ix_ret, geo, g_ret, there, sims, h_ret>>

(***************************************************************************)
(* Simhash fingerprints, Permuter and SimhashIndex (simhash.py)            *)
(***************************************************************************)

\* The bit width of the fingerprints the index holds (simhashes[0].hashbits).
IndexHashbits == 4

\* The largest `bits` (hamming threshold) the constructor is called with.
MaxBits == 1

\* The longest list of fingerprints handed to the constructor.
MaxSimhashes == 1

\* The longest list handed to the constructor before find_all_dupes alone.
MaxScanned == 3

\* How many distinct fingerprints add is called with after construction.
MaxAdds == 1

\* How many find_dupes calls run on one index.
MaxCalls == 1

\* A Simhash is modelled by its hash: __eq__ and __hash__ (hashtype.py) look at
\* nothing else, so a bucket (a Python set) holds at most one per value.
Fingerprints == 0..(2 ^ IndexHashbits - 1)

\* Hashtype.hamming_distance
hamming_distance(self_hash, other_hash, hashbits) ==
    PopCount(BitAnd(BitXor(self_hash, other_hash), 2 ^ hashbits - 1))

HexDigits ==
    <<"0", "1", "2", "3", "4", "5", "6", "7", "8", "9", "a", "b", "c", "d", "e", "f">>

\* '%x' % n
RECURSIVE Hex(_)
Hex(n) ==
    IF n < 16 THEN <<HexDigits[n + 1]>>
    ELSE Hex(n \div 16) \o <<HexDigits[(n % 16) + 1]>>

\* '%x:%x' % (key, i), as the sequence of its characters
KeyString(key, i) == Hex(key) \o <<":">> \o Hex(i)

\* The sequences below are 1-based: element i + 1 is the source's element i.

\* offsets: [hashbits // num_blocks * i for i in block_range] + [hashbits]
offsets(self) ==
    [i \in 1..self.num_blocks |-> (self.hashbits \div self.num_blocks) * (i - 1)]
    \o <<self.hashbits>>

\* widths: [j - i for i, j in pairwise(self.offsets)]
widths(self) ==
    [i \in 1..self.num_blocks |-> offsets(self)[i + 1] - offsets(self)[i]]

\* bit_widths: [2 ** width - 1 for width in self.widths]
bit_widths(self) == [i \in 1..self.num_blocks |-> 2 ^ widths(self)[i] - 1]

\* reduce(lambda x, y: x | (1 << y), range(start, end), 0)
RECURSIVE RangeMask(_, _)
RangeMask(start, end) ==
    IF start >= end THEN 0
    ELSE BitOr(RangeMask(start, end - 1), Shl(1, end - 1))

\* blocks: the mask of bits [(i * hashbits) // num_blocks,
\* ((i + 1) * hashbits) // num_blocks) for each i in block_range
blocks(self) ==
    [i \in 1..self.num_blocks |->
        RangeMask(((i - 1) * self.hashbits) \div self.num_blocks,
                  (i * self.hashbits) \div self.num_blocks)]

\* A slip: the generator stops after its first key.
get_keys_first_only(self, simhash) ==
    <<KeyString(BitAnd(Shr(simhash, offsets(self)[1]), bit_widths(self)[1]), 0)>>

\* get_keys: '%x:%x' % (simhash.hash >> offset & bit_width, i)
get_keys(self, simhash) ==
    [i \in 1..self.num_blocks |->
        KeyString(BitAnd(Shr(simhash, offsets(self)[i]), bit_widths(self)[i]),
                  i - 1)]

\* self.bucket[key] on a defaultdict(set): a missing key is inserted with an
\* empty set by the lookup itself.
Lookup(bucket, key) ==
    IF key \in DOMAIN bucket THEN bucket ELSE bucket @@ (key :> {})

\* A slip: self.bucket[key] = {simhash} for self.bucket[key].add(simhash).
BucketAddReplace(bucket, key, simhash) ==
    [Lookup(bucket, key) EXCEPT ![key] = {simhash}]

\* self.bucket[key].add(simhash)
BucketAdd(bucket, key, simhash) ==
    [Lookup(bucket, key) EXCEPT ![key] = @ \cup {simhash}]

RECURSIVE AddLoop(_, _, _)
AddLoop(bucket, keys, simhash) ==
    IF keys = <<>> THEN bucket
    ELSE AddLoop(BucketAdd(bucket, Head(keys), simhash), Tail(keys), simhash)

\* add: for key in self.get_keys(simhash): self.bucket[key].add(simhash)
add(self, simhash) ==
    [self EXCEPT !.bucket = AddLoop(self.bucket, get_keys(self, simhash), simhash)]

RECURSIVE AddAll(_, _)
AddAll(self, simhashes) ==
    IF simhashes = <<>> THEN self
    ELSE AddAll(add(self, Head(simhashes)), Tail(simhashes))

\* The order a bucket is iterated in: ascending hash (a set's order is the
\* implementation's; nothing below depends on it).
RECURSIVE SetToSeq(_)
SetToSeq(S) ==
    IF S = {} THEN <<>>
    ELSE LET m == CHOOSE x \in S : \A y \in S : x <= y
         IN <<m>> \o SetToSeq(S \ {m})

EmptyBucket == [k \in {} |-> {}]

IndexNew ==
    [pc |-> "new", simhashes |-> <<>>, hashbits |-> 0, bits |-> 0,
     num_blocks |-> 0, bucket |-> EmptyBucket]

\* The last call: its name, its argument, and what it yielded (a sequence) or
\* the exception it raised.
IRet(op, arg, value) == [op |-> op, arg |-> arg, value |-> value]


\* The inner loop of find_dupes.  The loop variable is named simhash, like the
\* query, so the test reads simhash.hamming_distance(simhash): the bucket
\* member against itself.
ScanBucket(self, members) ==
    LET Test(simhash) ==
            hamming_distance(simhash, simhash, self.hashbits) <= self.bits
    IN SelectSeq(SetToSeq(members), Test)

RECURSIVE ScanKeys(_, _)
ScanKeys(self, keys) ==
    IF keys = <<>> THEN <<>>
    ELSE ScanBucket(self, Lookup(self.bucket, Head(keys))[Head(keys)])
         \o ScanKeys(self, Tail(keys))

\* find_dupes, consumed to its end: what it yields, in order.  get_keys was
\* handed the query before the loop variable shadowed it.
find_dupes(self, simhash) == ScanKeys(self, get_keys(self, simhash))

RECURSIVE LookupAll(_, _)
LookupAll(bucket, keys) ==
    IF keys = <<>> THEN bucket
    ELSE LookupAll(Lookup(bucket, Head(keys)), Tail(keys))

\* The bucket mapping find_dupes leaves behind.
find_dupes_bucket(self, simhash) ==
    LookupAll(self.bucket, get_keys(self, simhash))

Remove(pool, i) == SubSeq(pool, 1, i - 1) \o SubSeq(pool, i + 1, Len(pool))

Prefixed(x, seqs) == [j \in 1..Len(seqs) |-> <<x>> \o seqs[j]]

\* itertools.permutations(pool, r): the r-length orderings, in the order of
\* the positions drawn.
RECURSIVE permutations(_, _)
RECURSIVE PermutationsFrom(_, _, _)
permutations(pool, r) ==
    IF r = 0 THEN << <<>> >>
    ELSE IF r > Len(pool) THEN <<>>
    ELSE PermutationsFrom(pool, r, 1)

PermutationsFrom(pool, r, i) ==
    IF i > Len(pool) THEN <<>>
    ELSE Prefixed(pool[i], permutations(Remove(pool, i), r - 1))
         \o PermutationsFrom(pool, r, i + 1)

\* range(n)
Range(n) == [i \in 1..n |-> i - 1]

Elements(seq) == {seq[i] : i \in DOMAIN seq}

\* Permuter.__init__: offsets = [hashbits - sum(widths[:i + 1]) - 1 ...]
PermuterNew(bits, masks, new_widths, hashbits) ==
    [bits |-> bits, masks |-> masks, hashbits |-> hashbits, widths |-> new_widths,
     offsets |-> [i \in 1..Len(new_widths) |->
                     hashbits - SumSeq(SubSeq(new_widths, 1, i)) - 1]]

\* Permuter.search_mask: width = sum(self.widths[:-self.bits]); width ones,
\* shifted up by hashbits - width.  widths[:-0] is widths[:0], the empty list.
search_mask(permuter) ==
    LET n == Len(permuter.widths)
        kept == IF permuter.bits = 0 THEN 0 ELSE Max(n - permuter.bits, 0)
        width == SumSeq(SubSeq(permuter.widths, 1, kept))
    IN Shl(2 ^ width - 1, permuter.hashbits - width)

RECURSIVE PermuteLoop(_, _, _, _)
PermuteLoop(x, _hash, masks, poffsets) ==
    IF masks = <<>> \/ poffsets = <<>> THEN x
    ELSE LET mask == Head(masks)
             offset == Head(poffsets)
             moved == IF offset > 0
                      THEN Shl(BitAnd(_hash, mask), offset)
                      ELSE Shr(BitAnd(_hash, mask), -offset)
         IN PermuteLoop(BitOr(x, moved), _hash, Tail(masks), Tail(poffsets))

\* Permuter.permute: reduce(reducer, zip(self.masks[1:], self.offsets), 0)
permute(permuter, _hash) ==
    PermuteLoop(0, _hash, Tail(permuter.masks), permuter.offsets)

RECURSIVE InsertByPermhash(_, _)
InsertByPermhash(sorted, x) ==
    IF sorted = <<>> THEN <<x>>
    ELSE IF Head(sorted).permhash <= x.permhash
         THEN <<Head(sorted)>> \o InsertByPermhash(Tail(sorted), x)
         ELSE <<x>> \o sorted

\* sorted(self.simhashes, key=attrgetter('permhash')): a stable sort
RECURSIVE SortedByPermhash(_)
SortedByPermhash(seq) ==
    IF seq = <<>> THEN <<>>
    ELSE InsertByPermhash(SortedByPermhash(SubSeq(seq, 1, Len(seq) - 1)),
                          seq[Len(seq)])

\* len(list(takewhile(end_func, seq)))
RECURSIVE TakeWhileLen(_, _, _)
TakeWhileLen(seq, mask, start) ==
    IF seq = <<>> THEN 0
    ELSE IF BitAnd(Head(seq).permhash, mask) = BitAnd(start.permhash, mask)
         THEN 1 + TakeWhileLen(Tail(seq), mask, start)
         ELSE 0

\* A slip: the pair is yielded as scanned, without the sort by hash.
UnsortedPair(simhash, other) == <<simhash.hash, other.hash>>

\* tuple(sorted([simhash, other], key=attrgetter('hash')))
SortedPair(simhash, other) ==
    IF simhash.hash <= other.hash THEN <<simhash.hash, other.hash>>
    ELSE <<other.hash, simhash.hash>>

\* The two loops over the first run of the permuted list: simhash is
\* permuted[i], other runs over takewhile(end_func, permuted[i + 1:]).
RECURSIVE PairsOf(_, _, _, _, _)
PairsOf(self, permuted, run, i, j) ==
    IF i > run THEN <<>>
    ELSE IF j > run THEN PairsOf(self, permuted, run, i + 1, i + 2)
    ELSE (IF hamming_distance(permuted[i].hash, permuted[j].hash, self.hashbits)
               <= self.bits
          THEN <<SortedPair(permuted[i], permuted[j])>>
          ELSE <<>>)
         \o PairsOf(self, permuted, run, i, j + 1)

\* One turn of find_all_dupes's outer loop, for one permutation.
ScanPermutation(self, permutation) ==
    LET n == self.num_blocks
        extra == SetToSeq(Elements(Range(n)) \ Elements(permutation))
        order == permutation \o extra
        masks == [k \in 1..n |-> blocks(self)[order[k] + 1]]
        new_widths == [k \in 1..n |-> widths(self)[order[k] + 1]]
        permuter == PermuterNew(self.bits, masks, new_widths, self.hashbits)
        tagged == [k \in 1..Len(self.simhashes) |->
                      [hash |-> self.simhashes[k],
                       permhash |-> permute(permuter, self.simhashes[k])]]
        permuted == SortedByPermhash(tagged)
        mask == search_mask(permuter)
        run == TakeWhileLen(permuted, mask, permuted[1])
    IN PairsOf(self, permuted, run, 1, 2)

RECURSIVE ScanPermutations(_, _)
ScanPermutations(self, perms) ==
    IF perms = <<>> THEN <<>>
    ELSE ScanPermutation(self, Head(perms)) \o ScanPermutations(self, Tail(perms))

\* find_all_dupes, consumed to its end: the pairs it yields, in order.
find_all_dupes(self) ==
    ScanPermutations(self, permutations(Range(self.num_blocks), self.bits))

\* The lists of 1..n fingerprints.
Lists(n) == UNION {[1..k -> Fingerprints] : k \in 1..n}

\* num_blocks as the caller gives it: 0 stands for a falsy value (None, 0),
\* and hashbits // 2 + 1 is one more than the constructor accepts.
BlockCounts == 0..(IndexHashbits \div 2 + 1)

\* SimhashIndex.__init__: the object it leaves, pc = "raised" when it raises
\* ValueError (before any bucket is filled).
SimhashIndexOf(simhashes, hashbits, bits, num_blocks) ==
    LET self == [IndexNew EXCEPT
                    !.simhashes = simhashes,
                    !.hashbits = hashbits,
                    !.bits = bits,
                    !.num_blocks = IF num_blocks = 0 THEN bits + 1
                                   ELSE num_blocks]
        max_blocks == self.hashbits \div 2
    IN IF self.num_blocks > max_blocks
       THEN [self EXCEPT !.pc = "raised"]
       ELSE AddAll([self EXCEPT !.pc = "ok"], simhashes)

\* SimhashIndex(simhashes, bits, num_blocks) on Simhashes of IndexHashbits bits
SimhashIndex(simhashes, bits, num_blocks) ==
    SimhashIndexOf(simhashes, IndexHashbits, bits, num_blocks)

\* The widest Simhash an index is laid out for.
MaxLayoutBits == 8

\* SimhashIndex([simhash], bits, num_blocks), simhash of any width up to
\* MaxLayoutBits and with no bit or every bit set
IndexLayoutCall ==
    /\ ix.pc = "new"
    /\ \E hashbits \in 1..MaxLayoutBits, bits \in 0..MaxBits,
         num_blocks \in 0..(MaxLayoutBits \div 2 + 1) :
          \E _hash \in {0, 2 ^ hashbits - 1} :
             /\ ix' = SimhashIndexOf(<<_hash>>, hashbits, bits, num_blocks)
             /\ ix_ret' = IRet("new", None,
                               IF ix'.pc = "raised" THEN "ValueError" ELSE None)
    /\ UNCHANGED <<ix_added, ix_calls>>
    /\ UNCHANGED <<bf, b_added, b_ret, geo, g_ret, there, sims, h_ret>>

\* SimhashIndex(simhashes, bits, num_blocks), simhashes a list of 1..n
\* fingerprints
IndexInitCall(n) ==
    /\ ix.pc = "new"
    /\ \E simhashes \in Lists(n), bits \in 0..MaxBits, num_blocks \in BlockCounts :
          /\ ix' = SimhashIndex(simhashes, bits, num_blocks)
          /\ ix_ret' = IRet("new", None,
                            IF ix'.pc = "raised" THEN "ValueError" ELSE None)
    /\ UNCHANGED <<ix_added, ix_calls>>
    /\ UNCHANGED <<bf, b_added, b_ret, geo, g_ret, there, sims, h_ret>>

\* index.add(simhash)
IndexAdd(simhash) ==
    /\ ix.pc = "ok"
    /\ Cardinality(ix_added \cup {simhash}) <= MaxAdds
    /\ ix' = add(ix, simhash)
    /\ ix_added' = ix_added \cup {simhash}
    /\ ix_ret' = IRet("add", simhash, None)
    /\ UNCHANGED ix_calls
    /\ UNCHANGED <<bf, b_added, b_ret, geo, g_ret, there, sims, h_ret>>

\* list(index.find_dupes(simhash))
IndexFindDupes(simhash) ==
    /\ ix.pc = "ok"
    /\ ix_calls < MaxCalls
    /\ ix' = [ix EXCEPT !.bucket = find_dupes_bucket(ix, simhash)]
    /\ ix_ret' = IRet("find_dupes", simhash, find_dupes(ix, simhash))
    /\ ix_calls' = ix_calls + 1
    /\ UNCHANGED ix_added
    /\ UNCHANGED <<bf, b_added, b_ret, geo, g_ret, there, sims, h_ret>>

\* list(index.find_all_dupes())
IndexFindAllDupes ==
    /\ ix.pc = "ok"
    /\ ix_ret' = IRet("find_all_dupes", None, find_all_dupes(ix))
    /\ UNCHANGED <<ix, ix_added, ix_calls>>
    /\ UNCHANGED <<bf, b_added, b_ret, geo, g_ret, there, sims, h_ret>>

(***************************************************************************)
(* Geohash (geohash.py)                                                    *)
(*                                                                         *)
(* A Decimal is the record [c, places] standing for c * 10^-places, places *)
(* being minus the exponent of as_tuple().  Quotients are kept as exact    *)
(* fractions: within the bounds below every quotient the source rounds to  *)
(* the context's 28 digits is far from the integer boundaries int() and    *)
(* quantize() cut at, unless it is exact.                                  *)
(***************************************************************************)

\* The most fractional digits of a latitude given to the constructor.
MaxLatPlaces == 4

\* The most fractional digits of a longitude given to the constructor.
MaxLonPlaces == 2

\* The largest precision asked of the constructor or of encode.
MaxPrecision == 3

LATLON_PRECISION_OFFSET == 2

HASH_PLACES_OFFSET == -LATLON_PRECISION_OFFSET

_BASE32 ==
    <<"0", "1", "2", "3", "4", "5", "6", "7", "8", "9", "b", "c", "d", "e", "f", "g",
      "h", "j", "k", "m", "n", "p", "q", "r", "s", "t", "u", "v", "w", "x", "y", "z">>

\* _BASE32_MAP[ch]
_BASE32_MAP(ch) == (CHOOSE i \in 1..32 : _BASE32[i] = ch) - 1

Dec(c, places) == [c |-> c, places |-> places]

\* The latitudes given: whole degrees written with 0..MaxLatPlaces fractional
\* digits, and their neighbours one unit in the last place below and above.
LatDegrees == {-90, -34, 0, 33, 90}

LatInputs ==
    {Dec(d * 10 ^ places + f, places) :
        d \in LatDegrees, places \in 0..MaxLatPlaces, f \in {-1, 0, 1}}

\* The longitudes given, likewise; some lie outside [-180, 180).
LonDegrees == {-540, -180, -1, 0, 111, 180}

LonInputs ==
    {Dec(d * 10 ^ places + f, places) :
        d \in LonDegrees, places \in 0..MaxLonPlaces, f \in {0, 1}}

\* dec >= n and dec < n for a Decimal dec and an int n
DecGE(dec, n) == dec.c >= n * 10 ^ dec.places

DecLT(dec, n) == dec.c < n * 10 ^ dec.places

\* A slip: > 90 for >= 90.
InvalidLatitudeOpen(dec_latitude) ==
    dec_latitude.c > 90 * 10 ^ dec_latitude.places \/ DecLT(dec_latitude, -90)

\* dec_latitude >= 90 or dec_latitude < -90
InvalidLatitude(dec_latitude) ==
    DecGE(dec_latitude, 90) \/ DecLT(dec_latitude, -90)

\* while dec_longitude < -180: += 360; while dec_longitude >= 180: -= 360
RECURSIVE Normalize(_)
Normalize(dec_longitude) ==
    IF DecLT(dec_longitude, -180)
    THEN Normalize(Dec(dec_longitude.c + 360 * 10 ^ dec_longitude.places,
                       dec_longitude.places))
    ELSE IF DecGE(dec_longitude, 180)
    THEN Normalize(Dec(dec_longitude.c - 360 * 10 ^ dec_longitude.places,
                       dec_longitude.places))
    ELSE dec_longitude

\* dec / n, as the fraction num / den
Frac(num, den) == [num |-> num, den |-> den]

DecOver(dec, n) == Frac(dec.c, n * 10 ^ dec.places)

\* int(x) for a fraction x >= 0: truncation
IntOf(x) == x.num \div x.den

\* boost, indexed from 0
boost(i) == <<0, 1, 4, 5, 16, 17, 20, 21>>[i + 1]

Reverse(seq) == [i \in 1..Len(seq) |-> seq[Len(seq) + 1 - i]]

RECURSIVE EncodeLoop(_, _, _, _)
EncodeLoop(ret, a, b, n) ==
    IF n = 0 THEN ret
    ELSE EncodeLoop(
             ret \o <<_BASE32[((boost(a % 8) + boost(b % 4) * 2) % 32) + 1]>>,
             Shr(b, 2), Shr(a, 3), n - 1)

\* _encode_i2c
_encode_i2c(lat, lon, lat_length, lon_length) ==
    LET precision == (lat_length + lon_length) \div 5
        a == IF lat_length < lon_length THEN lon ELSE lat
        b == IF lat_length < lon_length THEN lat ELSE lon
    IN Reverse(EncodeLoop(<<>>, a, b, precision))

\* encode's quadrant branches: the fixed-point integer of a fraction x in
\* [-1/2, 1/2) on length bits.
Quadrant(x, length) ==
    IF x.num > 0
    THEN IntOf(Frac(Shl(1, length) * x.num, x.den)) + Shl(1, length - 1)
    ELSE Shl(1, length - 1) - IntOf(Frac(Shl(1, length) * (-x.num), x.den))

\* An optional argument: <<>> is None, <<p>> is p.
NoArg == <<>>

\* precision or self.precision
Requested(self, precision) ==
    IF precision = NoArg \/ precision[1] = 0 THEN self.precision ELSE precision[1]

\* encode: self.precision is assigned first; 1 << (lat_length - 1) then raises
\* ValueError (negative shift count) when lat_length <= 0, leaving self.hash.
encode(self, precision) ==
    LET clamped == Min(Requested(self, precision), self.max_precision)
        lat_length == (clamped * 5) \div 2
        lon_length == lat_length + (clamped % 2)
        s1 == [self EXCEPT !.precision = clamped]
    IN IF lat_length <= 0
       THEN [self |-> s1, raised |-> "ValueError: negative shift count"]
       ELSE [self |-> [s1 EXCEPT !.hash =
                          _encode_i2c(Quadrant(self.lat, lat_length),
                                      Quadrant(self.lon, lon_length),
                                      lat_length, lon_length)],
             raised |-> ""]

GeoNew ==
    [pc |-> "new", latitude |-> Dec(0, 0), longitude |-> Dec(0, 0),
     lat_places |-> 0, lon_places |-> 0, max_precision |-> 0,
     other_max_precision |-> NoArg, precision |-> 0,
     lat |-> Frac(0, 1), lon |-> Frac(0, 1), hash |-> <<>>]

\* Geohash.__init__ with Decimal(latitude), Decimal(longitude) and precision:
\* the object it leaves and what it raised.  When it raises no object exists.
Geohash(dec_latitude, dec_longitude, precision) ==
    IF InvalidLatitude(dec_latitude)
    THEN [self |-> [GeoNew EXCEPT !.pc = "raised"],
          raised |-> "ValueError: invalid latitude"]
    ELSE LET max_precision == Max(dec_latitude.places + HASH_PLACES_OFFSET, 0)
             self == [GeoNew EXCEPT
                         !.pc = "ok",
                         !.lat_places = dec_latitude.places,
                         !.lon_places = dec_longitude.places,
                         !.max_precision = max_precision,
                         !.precision = Min(max_precision, precision),
                         !.latitude = dec_latitude,
                         !.longitude = dec_longitude,
                         !.lat = DecOver(dec_latitude, 180),
                         !.lon = DecOver(Normalize(dec_longitude), 360)]
             done == encode(self, NoArg)
         IN IF done.raised # ""
            THEN [self |-> [GeoNew EXCEPT !.pc = "raised"], raised |-> done.raised]
            ELSE done

\* x / 2^m in lowest terms
RECURSIVE OverPow2(_, _)
OverPow2(x, m) ==
    IF m > 0 /\ x % 2 = 0 THEN OverPow2(x \div 2, m - 1) ELSE Frac(x, 2 ^ m)

\* |x| * 10^places as a fraction, powers of ten cancelled
RECURSIVE Scaled(_, _, _)
Scaled(num, den, places) ==
    IF places = 0 THEN Frac(num, den)
    ELSE IF den % 10 = 0 THEN Scaled(num, den \div 10, places - 1)
    ELSE Scaled(num * 10, den, places - 1)

\* x.quantize(Decimal((0, (1,), -places))) under ROUND_HALF_EVEN
Quantize(x, places) ==
    LET a == Scaled(IF x.num < 0 THEN -x.num ELSE x.num, x.den, places)
        q == a.num \div a.den
        r == a.num % a.den
        up == 2 * r > a.den \/ (2 * r = a.den /\ q % 2 = 1)
        n == IF up THEN q + 1 ELSE q
    IN Dec(IF x.num < 0 THEN -n ELSE n, places)

\* magic(x, y, x_length, y_length, t): x takes bits 4, 2, 0 of t and y bits 3, 1
MagicX(x, t) == Shl(x, 3) + BitAnd(Shr(t, 2), 4) + BitAnd(Shr(t, 1), 2) + BitAnd(t, 1)

\* magic with y taking bits 2 and 1 of t
MagicYLow(y, t) == Shl(y, 2) + BitAnd(Shr(t, 1), 3)

MagicY(y, t) == Shl(y, 2) + BitAnd(Shr(t, 2), 2) + BitAnd(Shr(t, 1), 1)

\* The loop of _decode_c2i: lon takes the three bits when bit_length is even.
RECURSIVE DecodeLoop(_, _)
DecodeLoop(acc, _hash) ==
    IF _hash = <<>> THEN acc
    ELSE LET t == _BASE32_MAP(Head(_hash))
             next ==
                 IF acc.bit_length % 2 = 1
                 THEN [lat |-> MagicX(acc.lat, t), lon |-> MagicY(acc.lon, t),
                       lat_length |-> acc.lat_length + 3,
                       lon_length |-> acc.lon_length + 2,
                       bit_length |-> acc.bit_length + 5]
                 ELSE [lat |-> MagicY(acc.lat, t), lon |-> MagicX(acc.lon, t),
                       lat_length |-> acc.lat_length + 2,
                       lon_length |-> acc.lon_length + 3,
                       bit_length |-> acc.bit_length + 5]
         IN DecodeLoop(next, Tail(_hash))

\* _decode_c2i: (latitude, longitude) as fractions of degrees
_decode_c2i(_hash) ==
    LET got == DecodeLoop([lat |-> 0, lon |-> 0, lat_length |-> 0,
                           lon_length |-> 0, bit_length |-> 0], _hash)
        lat == Shl(got.lat, 1)
        lon == Shl(got.lon, 1)
        lat_length == got.lat_length + 1
        lon_length == got.lon_length + 1
        lat_numerator == lat - Shl(1, lat_length - 1)
        lon_numerator == lon - Shl(1, lon_length - 1)
    IN <<OverPow2(180 * lat_numerator, lat_length),
         OverPow2(360 * lon_numerator, lon_length)>>

\* The decimal places of lat_precision and lon_precision
lat_precision(self) == Min(self.precision + LATLON_PRECISION_OFFSET, self.lat_places)

lon_precision(self) == Min(self.precision + LATLON_PRECISION_OFFSET, self.lon_places)

DecAsFrac(dec) == Frac(dec.c, 10 ^ dec.places)

\* decode(_hash): <<quantized_lat, quantized_lon>>
decode(self, _hash) ==
    LET got == IF _hash # NoArg /\ _hash[1] # <<>>
               THEN _decode_c2i(_hash[1])
               ELSE <<DecAsFrac(self.latitude), DecAsFrac(self.longitude)>>
    IN <<Quantize(got[1], lat_precision(self)),
         Quantize(got[2], lon_precision(self))>>

\* The last call: its name, its arguments, the exception raised ("" if none)
\* and the value returned.
GRet(op, arg, raised, value) ==
    [op |-> op, arg |-> arg, raised |-> raised, value |-> value]

\* The last Simhash or Hashtype call, recorded like a Geohash call.
HRet(op, arg, raised, value) == GRet(op, arg, raised, value)

\* Geohash(latitude, longitude, precision) with the coordinates drawn from
\* lats and lons
GeoInitFrom(lats, lons) ==
    /\ geo.pc = "new"
    /\ \E latitude \in lats, longitude \in lons, precision \in 0..MaxPrecision :
          LET made == Geohash(latitude, longitude, precision)
          IN /\ geo' = made.self
             /\ g_ret' = GRet("new", <<latitude, longitude, precision>>,
                              made.raised, None)
    /\ UNCHANGED <<bf, b_added, b_ret, ix, ix_added, ix_calls, ix_ret, there, sims, h_ret>>

\* Geohash(latitude, longitude, precision)
GeoInitCall == GeoInitFrom(LatInputs, LonInputs)

\* The longest hash interleaved.
MaxInterleave == 2

\* _encode_i2c(lat, lon, lat_length, lon_length) with the lengths encode
\* computes for a precision and every integer of those lengths, as the
\* first call made
GeoInterleave ==
    /\ g_ret.op = ""
    /\ \E precision \in 1..MaxInterleave :
             LET lat_length == (precision * 5) \div 2
                 lon_length == lat_length + (precision % 2)
             IN \E lat \in 0..(2 ^ lat_length - 1), lon \in 0..(2 ^ lon_length - 1) :
                   /\ g_ret' = GRet("_encode_i2c",
                                    [precision |-> precision, lat |-> lat, lon |-> lon,
                                     lat_length |-> lat_length,
                                     lon_length |-> lon_length],
                                    "",
                                    _encode_i2c(lat, lon, lat_length, lon_length))
                   /\ UNCHANGED <<geo, there, sims, h_ret>>
                   /\ UNCHANGED <<bf, b_added, b_ret, ix, ix_added, ix_calls, ix_ret>>

\* The loop of _decode_c2i on the string _encode_i2c returned
GeoDeinterleave ==
    /\ g_ret.op = "_encode_i2c"
    /\ g_ret' = GRet("_decode_c2i", g_ret.arg, "",
                     DecodeLoop([lat |-> 0, lon |-> 0, lat_length |-> 0,
                                 lon_length |-> 0, bit_length |-> 0],
                                g_ret.value))
    /\ UNCHANGED <<geo, there, sims, h_ret>>
    /\ UNCHANGED <<bf, b_added, b_ret, ix, ix_added, ix_calls, ix_ret>>

\* The precision arguments of encode: none, or an integer.
PrecisionArgs == {NoArg} \cup {<<p>> : p \in -1..MaxPrecision}

\* geohash.encode(precision)
GeoEncode ==
    /\ geo.pc = "ok"
    /\ \E precision \in PrecisionArgs :
          LET done == encode(geo, precision)
          IN /\ geo' = done.self
             /\ g_ret' = GRet("encode", precision, done.raised, None)
    /\ UNCHANGED <<bf, b_added, b_ret, ix, ix_added, ix_calls, ix_ret, there, sims, h_ret>>

\* geohash.decode() and geohash.decode(geohash.hash)
GeoDecode ==
    /\ geo.pc = "ok"
    /\ \E _hash \in {NoArg, <<geo.hash>>} :
          g_ret' = GRet("decode", _hash, "", decode(geo, _hash))
    /\ UNCHANGED geo
    /\ UNCHANGED <<bf, b_added, b_ret, ix, ix_added, ix_calls, ix_ret, there, sims, h_ret>>

\* Geohash(*geohash.decode(geohash.hash), geohash.precision).hash: the
\* coordinates decode has just returned for the object's own hash, encoded
\* again at the object's precision.
GeoReencode ==
    /\ geo.pc = "ok"
    /\ g_ret.op = "decode" /\ g_ret.arg = <<geo.hash>>
    /\ LET again == Geohash(g_ret.value[1], g_ret.value[2], geo.precision)
       IN g_ret' = GRet("reencode", geo.hash, again.raised, again.self.hash)
    /\ UNCHANGED geo
    /\ UNCHANGED <<bf, b_added, b_ret, ix, ix_added, ix_calls, ix_ret, there, sims, h_ret>>

(***************************************************************************)
(* Geohash.distance_in_km and distance_in_miles between two instances,     *)
(* here (geo) and there.  unit_distance computes the angle in floating     *)
(* point; what is kept of the result is the number of decimal places it is *)
(* quantized to.                                                           *)
(***************************************************************************)
KM_PRECISION_OFFSET == 2

MI_PRECISION_OFFSET == 1

\* The coordinates of here and there: whole degrees, the latitude written
\* with 2..MaxLatPlaces fractional digits.  The two places differ.
HereLats == {Dec(33 * 10 ^ places, places) : places \in 2..MaxLatPlaces}

HereLons == {Dec(-1, 0)}

ThereLats == {Dec(34 * 10 ^ places, places) : places \in 2..MaxLatPlaces}

ThereLons == {Dec(-2, 0)}

\* distance_precision: min(self.precision, self.other_max_precision)
distance_precision(self) == Min(self.precision, self.other_max_precision[1])

\* The decimal places of km_precision and mi_precision
km_precision(self) == distance_precision(self) + KM_PRECISION_OFFSET

mi_precision(self) == distance_precision(self) + MI_PRECISION_OFFSET

\* distance(other): self, with other_max_precision assigned
distance(self, other) ==
    [self EXCEPT !.other_max_precision = <<other.max_precision>>]

\* The decimal places of self.distance_in_km(other), self.distance_in_miles(other)
DistancePlaces(self, other, unit) ==
    IF unit = "km" THEN km_precision(distance(self, other))
    ELSE mi_precision(distance(self, other))

Units == {"km", "miles"}

\* there = Geohash(latitude, longitude, precision)
ThereInitFrom(lats, lons) ==
    /\ there.pc = "new"
    /\ \E latitude \in lats, longitude \in lons, precision \in 0..MaxPrecision :
          LET made == Geohash(latitude, longitude, precision)
          IN /\ there' = made.self
             /\ g_ret' = GRet("there.new", <<latitude, longitude, precision>>,
                              made.raised, None)
    /\ UNCHANGED <<bf, b_added, b_ret, ix, ix_added, ix_calls, ix_ret, geo, sims, h_ret>>

\* there.encode(precision)
ThereEncode ==
    /\ there.pc = "ok"
    /\ \E precision \in PrecisionArgs :
          LET done == encode(there, precision)
          IN /\ there' = done.self
             /\ g_ret' = GRet("there.encode", precision, done.raised, None)
    /\ UNCHANGED <<bf, b_added, b_ret, ix, ix_added, ix_calls, ix_ret, geo, sims, h_ret>>

\* here.distance_in_km(there), here.distance_in_miles(there)
GeoDistance ==
    /\ geo.pc = "ok" /\ there.pc = "ok"
    /\ \E unit \in Units :
          /\ geo' = distance(geo, there)
          /\ g_ret' = GRet("distance", <<"here", unit>>, "",
                           DistancePlaces(geo, there, unit))
    /\ UNCHANGED <<bf, b_added, b_ret, ix, ix_added, ix_calls, ix_ret, there, sims, h_ret>>

\* there.distance_in_km(here), there.distance_in_miles(here)
ThereDistance ==
    /\ geo.pc = "ok" /\ there.pc = "ok"
    /\ \E unit \in Units :
          /\ there' = distance(there, geo)
          /\ g_ret' = GRet("distance", <<"there", unit>>, "",
                           DistancePlaces(there, geo, unit))
    /\ UNCHANGED <<bf, b_added, b_ret, ix, ix_added, ix_calls, ix_ret, geo, sims, h_ret>>

(***************************************************************************)
(* Simhash (simhash.py) and Hashtype.similarity (hashtype.py)              *)
(*                                                                         *)
(* A token is a string, kept as the sequence of its characters; data is    *)
(* the list of tokens create_hash iterates over (for a str, its words).    *)
(***************************************************************************)

\* The longest token.
MaxTokenLen == 2

\* The most tokens in one data.
MaxTokens == 2

\* The largest hashbits a Simhash is constructed with.
MaxSimhashBits == 3

\* The most Simhash instances constructed when hashes are compared.
MaxSimhashObjects == 2

DEF_HASHBITS == 96

Alphabet == {"a", "b"}

ord(c) == IF c = "a" THEN 97 ELSE 98

Tokens == UNION {[1..n -> Alphabet] : n \in 0..MaxTokenLen}

TokenLists == UNION {[1..n -> Tokens] : n \in 0..MaxTokens}

\* for c in v: x = ((x * m) ^ ord(c)) & mask.  Only the bits of x under the
\* mask reach the result, so x is cut to them before the product.
RECURSIVE StringHashLoop(_, _, _)
StringHashLoop(x, v, mask) ==
    IF v = <<>> THEN x
    ELSE StringHashLoop(
             BitAnd(BitXor((x % (mask + 1)) * 1000003, ord(Head(v))), mask),
             Tail(v), mask)

\* _string_hash
_string_hash(self, v) ==
    IF v = <<>> THEN 0
    ELSE BitXor(StringHashLoop(Shl(ord(v[1]), 7), v, 2 ^ self.hashbits - 1),
                Len(v))

\* t & (1 << i), as 0 or 1
Bit(t, i) == (t \div (2 ^ i)) % 2

\* v[i] after the loop over the tokens: +1 for each weight with bit i, else -1
Tally(weights, i) ==
    SumSeq([k \in 1..Len(weights) |-> IF Bit(weights[k], i) = 1 THEN 1 ELSE -1])

\* A slip: v[i] > 0 for v[i] >= 0.
VoteStrict(tally) == tally > 0

\* if v[i] >= 0
Vote(tally) == tally >= 0

\* Simhash.create_hash
Simhash_create_hash(self, data) ==
    LET weights == [k \in 1..Len(data) |-> _string_hash(self, data[k])]
    IN SumSeq([j \in 1..self.hashbits |->
                  IF Vote(Tally(weights, j - 1)) THEN 2 ^ (j - 1) ELSE 0])

\* Simhash(data, hashbits)
Simhash(data, hashbits) ==
    LET self == [kind |-> "Simhash", hashtype |-> <<"Simhash">>,
                 hashbits |-> hashbits, hash |-> 0]
    IN [self EXCEPT !.hash = Simhash_create_hash(self, data)]

\* What Hashtype's methods read of a Bloomfilter and of a Geohash.  Neither
\* constructor assigns hashtype; Geohash leaves hashbits at the default.
BloomAsHash(self) ==
    [kind |-> "Bloomfilter", hashtype |-> NoArg, hashbits |-> self.hashbits,
     hash |-> self.hash]

GeoAsHash(self) ==
    [kind |-> "Geohash", hashtype |-> NoArg, hashbits |-> DEF_HASHBITS,
     hash |-> self.hash]

\* The hashes that exist, by name.
Handles ==
    {[kind |-> "Simhash", i |-> k] : k \in 1..Len(sims)}
    \cup (IF bf.pc = "ok" THEN {[kind |-> "Bloomfilter", i |-> 0]} ELSE {})
    \cup (IF geo.pc = "ok" THEN {[kind |-> "Geohash", i |-> 0]} ELSE {})

Object(handle) ==
    IF handle.kind = "Simhash" THEN sims[handle.i]
    ELSE IF handle.kind = "Bloomfilter" THEN BloomAsHash(bf)
    ELSE GeoAsHash(geo)

\* Hashtype.similarity: the exception raised ("" if none) and the quotient
\* numerator / self.hashbits.
similarity(self, other_hash) ==
    IF self.hashtype = NoArg
    THEN [raised |-> "AttributeError: object has no attribute 'hashtype'",
          value |-> None]
    ELSE IF other_hash.kind # self.hashtype[1]
    THEN [raised |-> "TypeError: Hashes must be of same type to find similarity",
          value |-> None]
    ELSE IF self.hashbits # other_hash.hashbits
    THEN [raised |-> "ValueError: Hashes must be of equal size to find similarity",
          value |-> None]
    ELSE [raised |-> "",
          value |-> Frac(self.hashbits
                         - hamming_distance(self.hash, other_hash.hash,
                                            self.hashbits),
                         self.hashbits)]

\* Simhash(data, hashbits) with data drawn from datas, while fewer than n
\* instances exist
SimhashInitCall(n, datas) ==
    /\ Len(sims) < n
    /\ \E data \in datas, hashbits \in 1..MaxSimhashBits :
          LET self == Simhash(data, hashbits)
          IN /\ sims' = Append(sims, self)
             /\ h_ret' = HRet("new", <<data, hashbits>>, "", self.hash)
    /\ UNCHANGED <<bf, b_added, b_ret, ix, ix_added, ix_calls, ix_ret, geo, g_ret, there>>

\* a.similarity(b) for two hashes that exist
Similarity ==
    /\ \E a \in Handles, b \in Handles :
          LET done == similarity(Object(a), Object(b))
          IN h_ret' = HRet("similarity", <<a, b>>, done.raised, done.value)
    /\ UNCHANGED <<bf, b_added, b_ret, ix, ix_added, ix_calls, ix_ret, geo, g_ret, there, sims>>


\* The Permuter find_all_dupes builds for one permutation: the chosen blocks
\* first, the others after them.
PermuterFor(self, permutation) ==
    LET n == self.num_blocks
        extra == SetToSeq(Elements(Range(n)) \ Elements(permutation))
        order == permutation \o extra
        masks == [k \in 1..n |-> blocks(self)[order[k] + 1]]
        new_widths == [k \in 1..n |-> widths(self)[order[k] + 1]]
    IN PermuterNew(self.bits, masks, new_widths, self.hashbits)

\* permuter.permute(_hash) for every _hash of hashbits bits, with the
\* permuter of one of the permutations find_all_dupes goes through
PermuterPermute ==
    /\ ix.pc = "ok"
    /\ LET perms == permutations(Range(ix.num_blocks), ix.bits)
       IN \E p \in 1..Len(perms) :
             LET permuter == PermuterFor(ix, perms[p])
             IN ix_ret' = IRet("permute", permuter,
                               [_hash \in 0..(2 ^ ix.hashbits - 1) |->
                                   permute(permuter, _hash)])
    /\ UNCHANGED <<ix, ix_added, ix_calls>>
    /\ UNCHANGED <<bf, b_added, b_ret, geo, g_ret, there, sims, h_ret>>


(***************************************************************************)
(* Specifications: one per class.  The objects of the other classes do not *)
(* exist yet and stay as they are.                                         *)
(***************************************************************************)
BloomUnborn ==
    /\ bf = BloomNew
    /\ b_added = {}
    /\ b_ret = BRet("", "", None)

IndexUnborn ==
    /\ ix = IndexNew
    /\ ix_added = {}
    /\ ix_calls = 0
    /\ ix_ret = IRet("", None, None)

GeoUnborn ==
    /\ geo = GeoNew
    /\ g_ret = GRet("", NoArg, "", None)

ThereUnborn == there = GeoNew

HashUnborn ==
    /\ sims = <<>>
    /\ h_ret = HRet("", NoArg, "", None)

Init == BloomUnborn /\ IndexUnborn /\ GeoUnborn /\ ThereUnborn /\ HashUnborn

NextBloom ==
    \/ \E data \in BloomData, size \in SizeInputs :
           BloomInitCall(data, size[1], size[2])
    \/ \E item \in Items : BloomAdd(item)
    \/ \E item \in Items : BloomContains(item)

SpecBloom == Init /\ [][NextBloom]_vars

\* The Bloomfilter constructed with any parameters, degenerate ones included.
NextBloomSize ==
    \/ \E data \in BloomData, size \in SizeInputs \cup DegenerateSizeInputs :
           BloomInitCall(data, size[1], size[2])
    \/ \E item \in Items : BloomAdd(item)
    \/ \E item \in Items : BloomContains(item)

SpecBloomSize == Init /\ [][NextBloomSize]_vars

NextIndex ==
    \/ IndexInitCall(MaxSimhashes)
    \/ \E simhash \in Fingerprints : IndexAdd(simhash)
    \/ \E simhash \in Fingerprints : IndexFindDupes(simhash)
    \/ IndexFindAllDupes

SpecIndex == Init /\ [][NextIndex]_vars

\* find_all_dupes alone, on longer lists.
NextScan ==
    \/ IndexInitCall(MaxScanned)
    \/ IndexFindAllDupes

SpecScan == Init /\ [][NextScan]_vars

\* The permuters of find_all_dupes, on indexes of every width.
NextPermute ==
    \/ IndexLayoutCall
    \/ PermuterPermute

SpecPermute == Init /\ [][NextPermute]_vars

\* The interleaving alone: _encode_i2c on fixed-point integers, and the loop
\* of _decode_c2i on what it returned.
NextInterleave ==
    \/ GeoInterleave
    \/ GeoDeinterleave

SpecInterleave == Init /\ [][NextInterleave]_vars

\* Indexes of every width, for the layout of their blocks.
NextLayout ==
    \/ IndexLayoutCall
    \/ IndexFindAllDupes

SpecLayout == Init /\ [][NextLayout]_vars

NextGeo ==
    \/ GeoInitCall
    \/ GeoEncode
    \/ GeoDecode
    \/ GeoReencode

SpecGeo == Init /\ [][NextGeo]_vars

\* Two Geohash instances and the distance between them.
NextDistance ==
    \/ GeoInitFrom(HereLats, HereLons)
    \/ GeoEncode
    \/ ThereInitFrom(ThereLats, ThereLons)
    \/ ThereEncode
    \/ GeoDistance
    \/ ThereDistance

SpecDistance == Init /\ [][NextDistance]_vars

\* The Simhash constructor, called once.
NextSimhash == SimhashInitCall(1, TokenLists)

SpecSimhash == Init /\ [][NextSimhash]_vars

\* Hashes of the three kinds and similarity between them.
NextHash ==
    \/ SimhashInitCall(MaxSimhashObjects, {<<token>> : token \in Tokens})
    \/ \E data \in {d \in BloomData : d.str \in {"test", "holy diver"}} :
           BloomInitCall(data, 3, 500)
    \/ GeoInitFrom(HereLats, HereLons)
    \/ Similarity

SpecHash == Init /\ [][NextHash]_vars

(***************************************************************************)
(* C1: no false negatives.  Every item whose add has returned, or that was *)
(* in the constructor's data, tests as a member of the filter, in every    *)
(* later state of the filter.                                              *)
(***************************************************************************)
NoFalseNegatives ==
    bf.pc = "ok" => \A item \in b_added : Contains(bf, item)

\* Two different items were added and a third call has answered a membership test.
NoFalseNegativesWitness ==
    /\ bf.pc = "ok"
    /\ Cardinality(b_added) >= 2
    /\ b_ret.op = "in" /\ b_ret.item \in b_added /\ b_ret.value = "True"

\* The fingerprints in the index: the constructor's list and everything added.
Members == Elements(ix.simhashes) \cup ix_added

(***************************************************************************)
(* C2: find_dupes(query) yields only members whose hamming distance to the *)
(* query is at most bits.                                                  *)
(***************************************************************************)
FindDupesYieldsOnlyNear ==
    (ix.pc = "ok" /\ ix_ret.op = "find_dupes") =>
        \A i \in DOMAIN ix_ret.value :
            hamming_distance(ix_ret.value[i], ix_ret.arg, ix.hashbits) <= ix.bits

(***************************************************************************)
(* C3: with num_blocks > bits, find_dupes(query) yields every member whose *)
(* hamming distance to the query is at most bits, whether the member came  *)
(* with the constructor or through add.                                    *)
(***************************************************************************)
FindDupesComplete ==
    (ix.pc = "ok" /\ ix_ret.op = "find_dupes" /\ ix.num_blocks > ix.bits) =>
        \A m \in Members :
            hamming_distance(m, ix_ret.arg, ix.hashbits) <= ix.bits
                => m \in Elements(ix_ret.value)

\* A query one bit away from an added member, which find_dupes has yielded.
FindDupesCompleteWitness ==
    /\ ix.pc = "ok" /\ ix_ret.op = "find_dupes" /\ ix.num_blocks > ix.bits
    /\ \E m \in ix_added \ Elements(ix.simhashes) :
          /\ hamming_distance(m, ix_ret.arg, ix.hashbits) = 1
          /\ m \in Elements(ix_ret.value)

(***************************************************************************)
(* C4: with num_blocks > bits, find_all_dupes yields every unordered pair  *)
(* of distinct members whose hamming distance is at most bits.             *)
(***************************************************************************)
FindAllDupesComplete ==
    (ix.pc = "ok" /\ ix_ret.op = "find_all_dupes" /\ ix.num_blocks > ix.bits) =>
        \A a \in Members, b \in Members :
            (a < b /\ hamming_distance(a, b, ix.hashbits) <= ix.bits)
                => <<a, b>> \in Elements(ix_ret.value)

(***************************************************************************)
(* C5: every pair find_all_dupes yields is two members of the index within *)
(* hamming distance bits of each other, the smaller hash first.            *)
(***************************************************************************)
FindAllDupesPairs ==
    (ix.pc = "ok" /\ ix_ret.op = "find_all_dupes") =>
        \A i \in DOMAIN ix_ret.value :
            LET pair == ix_ret.value[i]
            IN /\ pair[1] \in Members /\ pair[2] \in Members
               /\ hamming_distance(pair[1], pair[2], ix.hashbits) <= ix.bits
               /\ pair[1] <= pair[2]

\* A pair was yielded whose larger member comes first in the list given.
FindAllDupesPairsWitness ==
    /\ ix.pc = "ok" /\ ix_ret.op = "find_all_dupes"
    /\ \E i \in DOMAIN ix_ret.value, j \in DOMAIN ix.simhashes,
         k \in DOMAIN ix.simhashes :
          /\ j < k
          /\ ix.simhashes[j] = ix_ret.value[i][2]
          /\ ix.simhashes[k] = ix_ret.value[i][1]
          /\ ix_ret.value[i][1] < ix_ret.value[i][2]

(***************************************************************************)
(* C6: each member is in exactly the num_blocks buckets its own keys name  *)
(* and in no other bucket, and no bucket ever loses a member.              *)
(***************************************************************************)
BucketsOf(m) == {key \in DOMAIN ix.bucket : m \in ix.bucket[key]}

BucketsHoldOwnKeys ==
    ix.pc = "ok" =>
        /\ \A m \in Members :
              /\ BucketsOf(m) = Elements(get_keys(ix, m))
              /\ Cardinality(BucketsOf(m)) = ix.num_blocks
        /\ \A key \in DOMAIN ix.bucket : ix.bucket[key] \subseteq Members

BucketsKeepMembers ==
    ix.pc = "ok" =>
        \A key \in DOMAIN ix.bucket :
            key \in DOMAIN ix'.bucket /\ ix.bucket[key] \subseteq ix'.bucket[key]

BucketsExact == []BucketsHoldOwnKeys /\ [][BucketsKeepMembers]_vars

\* add has put a second member into a bucket that already held one.
BucketsExactWitness ==
    /\ ix.pc = "ok" /\ ix_ret.op = "add"
    /\ ix_ret.arg \notin Elements(ix.simhashes)
    /\ \E key \in DOMAIN ix.bucket :
          ix_ret.arg \in ix.bucket[key] /\ Cardinality(ix.bucket[key]) >= 2

(***************************************************************************)
(* C7: effective precision.  After Geohash(latitude, longitude, p) and      *)
(* after every encode(p), precision is min(p, max_precision), so it never   *)
(* exceeds max_precision; the hash has exactly precision characters; and    *)
(* encode(p) does not raise.                                                *)
(***************************************************************************)
PrecisionClamped ==
    geo.pc = "ok" =>
        /\ geo.precision <= geo.max_precision
        /\ Len(geo.hash) = geo.precision
        /\ g_ret.op = "new" =>
              geo.precision = Min(g_ret.arg[3], geo.max_precision)
        /\ (g_ret.op = "encode" /\ g_ret.arg # NoArg) =>
              /\ g_ret.raised = ""
              /\ geo.precision = Min(g_ret.arg[1], geo.max_precision)

(***************************************************************************)
(* C8: construction succeeds on valid input.  For a latitude in [-90, 90),  *)
(* any longitude and any precision >= 0, the constructor raises nothing     *)
(* and leaves an instance with a hash.                                      *)
(***************************************************************************)
ConstructionSucceeds ==
    (/\ g_ret.op = "new"
     /\ DecGE(g_ret.arg[1], -90) /\ DecLT(g_ret.arg[1], 90)
     /\ g_ret.arg[3] >= 0)
    => g_ret.raised = "" /\ geo.pc = "ok"

(***************************************************************************)
(* C9: latitude validation.  The constructor given a latitude >= 90 or      *)
(* < -90 raises the invalid-latitude error and leaves no instance; given a  *)
(* latitude in [-90, 90) it does not raise that error; and an instance,     *)
(* when there is one, holds the latitude it was given.                      *)
(***************************************************************************)
LatitudeValidated ==
    g_ret.op = "new" =>
        LET latitude == g_ret.arg[1]
            outside == DecGE(latitude, 90) \/ DecLT(latitude, -90)
        IN /\ outside =>
                 g_ret.raised = "ValueError: invalid latitude" /\ geo.pc = "raised"
           /\ ~outside => g_ret.raised # "ValueError: invalid latitude"
           /\ geo.pc = "ok" => geo.latitude = latitude

\* The latitude 90 itself, written with fractional digits, has been rejected.
LatitudeValidatedWitness ==
    /\ g_ret.op = "new"
    /\ g_ret.arg[1].places > 0
    /\ g_ret.arg[1].c = 90 * 10 ^ g_ret.arg[1].places
    /\ g_ret.raised = "ValueError: invalid latitude"
    /\ geo.pc = "raised"

(***************************************************************************)
(* C10: round trip.  When the object's hash is the encoding at the object's *)
(* precision, the coordinates decode returns for that hash, encoded again   *)
(* at that precision, give that hash.                                       *)
(***************************************************************************)
RoundTrip ==
    (g_ret.op = "reencode" /\ Len(g_ret.arg) = geo.precision)
    => g_ret.raised = "" /\ g_ret.value = g_ret.arg

\* Two Decimals stand for the same number.
DecEq(a, b) == a.c * 10 ^ b.places = b.c * 10 ^ a.places

(***************************************************************************)
(* C11: decode() with no argument returns the latitude and the longitude    *)
(* given to the constructor, whatever encode calls came between.            *)
(***************************************************************************)
DecodeReturnsInputs ==
    (g_ret.op = "decode" /\ g_ret.arg = NoArg) =>
        /\ DecEq(g_ret.value[1], geo.latitude)
        /\ DecEq(g_ret.value[2], geo.longitude)

(***************************************************************************)
(* C12: distance precision.  With both instances holding a hash of their    *)
(* precision, the decimal places a distance_in_km or distance_in_miles call *)
(* quantizes to are those of min of the two max_precision, and are the      *)
(* same for the call made the other way round.                              *)
(***************************************************************************)
DistancePlacesSymmetric ==
    (/\ g_ret.op = "distance"
     /\ Len(geo.hash) = geo.precision /\ Len(there.hash) = there.precision)
    => LET unit == g_ret.arg[2]
           offset == IF unit = "km" THEN KM_PRECISION_OFFSET
                     ELSE MI_PRECISION_OFFSET
       IN /\ g_ret.value = Min(geo.max_precision, there.max_precision) + offset
          /\ DistancePlaces(geo, there, unit) = DistancePlaces(there, geo, unit)

(***************************************************************************)
(* C13: the outcomes of similarity.  a.similarity(b) raises the type error  *)
(* when the two hashes are of different kinds, else the size error when     *)
(* their hashbits differ, else returns (hashbits - hamming_distance) /      *)
(* hashbits, a value in [0, 1].                                             *)
(***************************************************************************)
SimilarityOutcomes ==
    h_ret.op = "similarity" =>
        LET a == Object(h_ret.arg[1])
            b == Object(h_ret.arg[2])
        IN IF a.kind # b.kind
           THEN h_ret.raised
                    = "TypeError: Hashes must be of same type to find similarity"
           ELSE IF a.hashbits # b.hashbits
           THEN h_ret.raised
                    = "ValueError: Hashes must be of equal size to find similarity"
           ELSE /\ h_ret.raised = ""
                /\ h_ret.value.den = a.hashbits
                /\ h_ret.value.num
                       = a.hashbits - hamming_distance(a.hash, b.hash, a.hashbits)
                /\ 0 <= h_ret.value.num /\ h_ret.value.num <= h_ret.value.den

\* How many of the weights have bit i set.
WithBit(weights, i) == Cardinality({k \in DOMAIN weights : Bit(weights[k], i) = 1})

(***************************************************************************)
(* C14: majority vote.  Bit i < hashbits of the fingerprint of a newly      *)
(* constructed Simhash is 1 exactly when at least as many token weights     *)
(* have bit i set as have it clear, and the fingerprint is below            *)
(* 2^hashbits.                                                              *)
(***************************************************************************)
MajorityVote ==
    h_ret.op = "new" =>
        LET data == h_ret.arg[1]
            self == sims[Len(sims)]
            weights == [k \in 1..Len(data) |-> _string_hash(self, data[k])]
        IN /\ self.hashbits = h_ret.arg[2]
           /\ 0 <= self.hash /\ self.hash < 2 ^ self.hashbits
           /\ \A i \in 0..(self.hashbits - 1) :
                 Bit(self.hash, i) = 1
                 <=> 2 * WithBit(weights, i) >= Len(weights)

\* A fingerprint with a bit won by a tie and a bit lost.
MajorityVoteWitness ==
    /\ h_ret.op = "new"
    /\ LET data == h_ret.arg[1]
           self == sims[Len(sims)]
           weights == [k \in 1..Len(data) |-> _string_hash(self, data[k])]
       IN /\ Len(data) >= 2
          /\ \E i \in 0..(self.hashbits - 1) :
                2 * WithBit(weights, i) = Len(weights) /\ Bit(self.hash, i) = 1
          /\ \E i \in 0..(self.hashbits - 1) :
                2 * WithBit(weights, i) < Len(weights) /\ Bit(self.hash, i) = 0

\* One step of a constructed Bloomfilter keeps hashbits and num_hashes and
\* every bit that is set; a membership test keeps the whole object.
BloomStep ==
    bf.pc = "ok" =>
        /\ bf'.hashbits = bf.hashbits
        /\ bf'.num_hashes = bf.num_hashes
        /\ BitAnd(bf.hash, bf'.hash) = bf.hash
        /\ b_ret'.op = "in" => bf' = bf

(***************************************************************************)
(* C15: Bloomfilter state.  Across add and membership tests hashbits and    *)
(* num_hashes stay as the constructor derived them and the bit vector only  *)
(* gains bits; a membership test changes nothing.                           *)
(***************************************************************************)
BloomStateKept == [][BloomStep]_vars

\* An add has just set bits in a filter that already held an item.
BloomStateKeptWitness ==
    /\ bf.pc = "ok" /\ b_ret.op = "add" /\ b_ret.value = None
    /\ Cardinality(b_added) >= 2
    /\ PopCount(bf.hash) >= 3

(***************************************************************************)
(* C16: parameter validation.  The constructor called with capacity <= 0    *)
(* or with a false_positive_rate outside (0, 1) raises and leaves no        *)
(* filter.  (The rate is in thousandths.)                                   *)
(***************************************************************************)
ParametersValidated ==
    (/\ b_ret.op = "new"
     /\ \/ b_ret.item[1] <= 0
        \/ b_ret.item[2] <= 0
        \/ b_ret.item[2] >= 1000)
    => bf.pc = "raised" /\ b_ret.value \in {"ValueError", "ZeroDivisionError"}

(***************************************************************************)
(* C17: read-only operations.  A find_dupes call leaves the bucket mapping  *)
(* - its keys and the contents of every bucket - and the member list as     *)
(* they were.                                                               *)
(***************************************************************************)
FindDupesReadOnly ==
    [][ix_calls' # ix_calls =>
          /\ DOMAIN ix'.bucket = DOMAIN ix.bucket
          /\ ix'.bucket = ix.bucket
          /\ ix'.simhashes = ix.simhashes]_vars

\* The fingerprints stored in the buckets.
Bucketed == UNION {ix.bucket[key] : key \in DOMAIN ix.bucket}

(***************************************************************************)
(* C19: the index grows via add.  The fingerprints find_all_dupes scans,    *)
(* self.simhashes, are the fingerprints stored in the buckets: the          *)
(* constructor's list and everything added since.                           *)
(***************************************************************************)
AddedAreScanned ==
    ix.pc = "ok" => Elements(ix.simhashes) = Bucketed

(***************************************************************************)
(* C18: block layout.  Block i of an index on hashbits bits in num_blocks   *)
(* blocks covers the bits from floor(hashbits * i / num_blocks) up to, not  *)
(* including, floor(hashbits * (i + 1) / num_blocks); offsets and widths,   *)
(* which make the bucket keys, and the masks of blocks are all these       *)
(* ranges.                                                                  *)
(***************************************************************************)
BlockLayout ==
    ix.pc = "ok" =>
        \A i \in 0..(ix.num_blocks - 1) :
            LET start == (ix.hashbits * i) \div ix.num_blocks
                end == (ix.hashbits * (i + 1)) \div ix.num_blocks
            IN /\ offsets(ix)[i + 1] = start
               /\ widths(ix)[i + 1] = end - start
               /\ blocks(ix)[i + 1] = 2 ^ end - 2 ^ start

(***************************************************************************)
(* C20: the interleaving is invertible.  For a precision p >= 1, lat below  *)
(* 2^floor(5p/2) and lon below 2^ceil(5p/2), _encode_i2c returns p          *)
(* characters of the base-32 alphabet, and the loop of _decode_c2i on that  *)
(* string gives back lat, lon and the two bit lengths.                      *)
(***************************************************************************)
InterleaveInvertible ==
    /\ g_ret.op = "_encode_i2c" =>
          /\ Len(g_ret.value) = g_ret.arg.precision
          /\ \A k \in 1..Len(g_ret.value) :
                \E c \in 1..32 : _BASE32[c] = g_ret.value[k]
    /\ g_ret.op = "_decode_c2i" =>
          /\ g_ret.value.lat = g_ret.arg.lat
          /\ g_ret.value.lon = g_ret.arg.lon
          /\ g_ret.value.lat_length = g_ret.arg.lat_length
          /\ g_ret.value.lon_length = g_ret.arg.lon_length
          /\ g_ret.arg.lat_length = (5 * g_ret.arg.precision) \div 2
          /\ g_ret.arg.lon_length = (5 * g_ret.arg.precision + 1) \div 2

InterleaveInvertibleWitness ==
    /\ g_ret.op = "_decode_c2i"
    /\ g_ret.arg.precision = 2
    /\ g_ret.arg.lat = 21
    /\ g_ret.arg.lon = 10
    /\ g_ret.value.lat = 21
    /\ g_ret.value.lon = 10

\* The number of bits set in x >= 0
RECURSIVE Ones(_)
Ones(x) == IF x = 0 THEN 0 ELSE (x % 2) + Ones(x \div 2)

(***************************************************************************)
(* C21: permute is a bit permutation.  For every block ordering of          *)
(* find_all_dupes, permute maps the values of hashbits bits one to one to   *)
(* values of hashbits bits: the result is below 2^hashbits and has as many  *)
(* bits set as the input, and two values agree under search_mask after      *)
(* permutation iff they agree on every block placed under that mask.        *)
(***************************************************************************)
PermuteIsBitPermutation ==
    ix_ret.op = "permute" =>
        LET permuter == ix_ret.arg
            permhash == ix_ret.value
            values == DOMAIN permhash
            n == Len(permuter.widths)
            kept == IF permuter.bits = 0 THEN 0 ELSE Max(n - permuter.bits, 0)
            mask == search_mask(permuter)
        IN /\ \A x \in values :
                 /\ permhash[x] < 2 ^ permuter.hashbits
                 /\ Ones(permhash[x]) = Ones(x)
           /\ \A x, y \in values : permhash[x] = permhash[y] => x = y
           /\ \A x, y \in values :
                 BitAnd(permhash[x], mask) = BitAnd(permhash[y], mask)
                 <=> \A k \in 1..kept :
                        BitAnd(x, permuter.masks[k]) = BitAnd(y, permuter.masks[k])

=============================================================================
